---- MODULE Spec2Model ----
(***************************************************************************)
(* ConsistentHashRing (consistent-hash.ts): a sorted array of virtual-node *)
(* entries {hash, vnode, node} plus a registry nodeMap from physical node  *)
(* to its set of vnode ids.  Strings are sequences of one-character        *)
(* strings, so that the vnode id template `${nodeId}#${i}` and the digest  *)
(* of a string are computed, not assumed.                                  *)
(***************************************************************************)
EXTENDS Integers, Sequences, FiniteSets, TLC

(* ------------------------------ bounds -------------------------------- *)

\* The ring coordinate space is 0 .. HashSpace-1 (2^64 in the code).
HashSpace == 4

\* Digest algorithms are numbered 0 .. MaxHashFn (the hashFn option).
MaxHashFn == 2

\* The replicas option the ring is constructed with (100 by default).
Replicas == 2

\* getNodes is called with count in -1 .. MaxCount.
MaxCount == 3

(* ------------------------------ inputs -------------------------------- *)

\* Physical node ids.
NodeIds == { <<"a">>, <<"b">>, <<"c">> }

\* Lookup keys.
\* Node ids that contain the separator of the virtual-node id, one of them
\* spelled like a virtual-node id of another.
SharpNodeIds == { << "a" >>, << "a", "#" >>, << "a", "#", "1" >> }

Keys == { <<"k", "1">>, <<"k", "2">> }

\* Weights are rationals <<numerator, denominator>>, denominator > 0:
\* -1, 0, 1/100, 3/4 and the default 1.
Weights == { <<-1, 1>>, <<0, 1>>, <<1, 100>>, <<3, 4>>, <<1, 1>> }

HashFns == 0 .. MaxHashFn

Counts == -1 .. MaxCount

(* ------------------------- strings and digest ------------------------- *)

\* Character codes of the characters that occur in node ids, vnode ids and keys.
CharCode(c) ==
    CASE c = "#" -> 35
      [] c = "0" -> 48
      [] c = "1" -> 49
      [] c = "2" -> 50
      [] c = "3" -> 51
      [] c = "4" -> 52
      [] c = "5" -> 53
      [] c = "6" -> 54
      [] c = "7" -> 55
      [] c = "8" -> 56
      [] c = "9" -> 57
      [] c = "a" -> 97
      [] c = "b" -> 98
      [] c = "c" -> 99
      [] c = "k" -> 107

DigitChar(d) ==
    CASE d = 0 -> "0" [] d = 1 -> "1" [] d = 2 -> "2" [] d = 3 -> "3"
      [] d = 4 -> "4" [] d = 5 -> "5" [] d = 6 -> "6" [] d = 7 -> "7"
      [] d = 8 -> "8" [] d = 9 -> "9"

\* Decimal rendering of a non-negative integer, as the template literal does.
RECURSIVE Decimal(_)
Decimal(i) ==
    IF i < 10 THEN << DigitChar(i) >>
    ELSE Decimal(i \div 10) \o << DigitChar(i % 10) >>

\* A virtual-node id without the replica index.
VnodeIdNoIndex(nodeId, i) == nodeId \o << "#" >>

\* `${nodeId}#${i}`
VnodeId(nodeId, i) == nodeId \o << "#" >> \o Decimal(i)

\* The digest is twice as wide as a coordinate (a 128-bit digest, of which
\* the first 64 bits are kept).
DigestSpace == HashSpace * HashSpace

\* crypto.createHash(hashFn).update(input).digest(): a deterministic function
\* of the algorithm and of every character of the input, mixing
\* non-linearly so that distinct inputs may or may not collide.
DigestStep(fn, acc, c) ==
    LET x == acc + CharCode(c) + fn
    IN  (x * x + acc * (fn + 5) + fn + 1) % DigestSpace

RECURSIVE Digest(_, _)
Digest(fn, input) ==
    IF input = << >> THEN (fn + 3) % DigestSpace
    ELSE DigestStep(fn, Digest(fn, SubSeq(input, 1, Len(input) - 1)),
                    input[Len(input)])

\* _hashToBigInt: the leading half of the digest, read as an unsigned integer.
HashToBigInt(fn, input) == Digest(fn, input) \div HashSpace

(* ------------------------------ the ring ------------------------------ *)

VARIABLES
    replicas,     \* this.replicas
    hashFn,       \* this.hashFn
    ring,         \* this.ring: sequence of [hash, vnode, node]
    nodeMap,      \* this.nodeMap: node id -> set of vnode ids
    weights,      \* history: the weight each registered node was added with
    call,         \* history: the last call and its arguments
    result,       \* history: what the last call returned or threw
    prevRing,     \* history: this.ring when the last call began
    prevNodeMap,  \* history: this.nodeMap when the last call began
    prevRemoved   \* history: the node the call before the last one removed, if any

vars == << replicas, hashFn, ring, nodeMap, weights, call, result,
           prevRing, prevNodeMap, prevRemoved >>

EmptyMap == [n \in {} |-> {}]

\* Map.prototype.set
MapSet(m, k, v) == [n \in DOMAIN m \cup {k} |-> IF n = k THEN v ELSE m[n]]

\* Map.prototype.delete
MapDelete(m, k) == [n \in DOMAIN m \ {k} |-> m[n]]

Max(a, b) == IF a >= b THEN a ELSE b

\* Rounding that drops the fraction instead of rounding to nearest.
MathFloor(num, den) == num \div den

\* Math.round(num / den), den > 0: the nearest integer, halves towards +infinity.
MathRound(num, den) == (2 * num + den) \div (2 * den)

\* The replica count without its lower bound of 1.
ReplicasUnclamped(reps, weight) == MathRound(reps * weight[1], weight[2])

\* Math.max(1, Math.round(this.replicas * weight))
ReplicasForNode(reps, weight) == Max(1, MathRound(reps * weight[1], weight[2]))

\* The entries the loop of addNode pushes, in push order.
NewEntries(fn, nodeId, n) ==
    [i \in 1 .. n |-> [hash  |-> HashToBigInt(fn, VnodeId(nodeId, i - 1)),
                       vnode |-> VnodeId(nodeId, i - 1),
                       node  |-> nodeId]]

\* The vnodeSet the loop of addNode fills.
NewVnodeSet(nodeId, n) == { VnodeId(nodeId, i - 1) : i \in 1 .. n }

\* (a, b) => (a.hash < b.hash ? -1 : a.hash > b.hash ? 1 : 0)
Compare(a, b) == IF a.hash < b.hash THEN -1 ELSE IF a.hash > b.hash THEN 1 ELSE 0

\* e placed in front of the entries that compare equal to it.
InsertSortedBeforeEqual(s, e) ==
    LET k == Cardinality({ i \in 1 .. Len(s) : Compare(s[i], e) < 0 })
    IN  SubSeq(s, 1, k) \o << e >> \o SubSeq(s, k + 1, Len(s))

\* e placed behind every entry of the sorted sequence s that does not compare
\* greater than it.
InsertSorted(s, e) ==
    LET k == Cardinality({ i \in 1 .. Len(s) : Compare(s[i], e) <= 0 })
    IN  SubSeq(s, 1, k) \o << e >> \o SubSeq(s, k + 1, Len(s))

\* Array.prototype.sort with Compare: a stable sort (ECMAScript 2019), so
\* entries that compare equal keep their order.
RECURSIVE SortRing(_)
SortRing(s) ==
    IF s = << >> THEN << >>
    ELSE InsertSorted(SortRing(SubSeq(s, 1, Len(s) - 1)), s[Len(s)])

\* this.ring.filter(entry => entry.node !== nodeId)
RECURSIVE FilterOut(_, _)
FilterOut(s, nodeId) ==
    IF s = << >> THEN << >>
    ELSE IF s[1].node = nodeId THEN FilterOut(Tail(s), nodeId)
    ELSE << s[1] >> \o FilterOut(Tail(s), nodeId)

\* The while loop of _binarySearch over 0-based indices lo .. hi.
RECURSIVE SearchLoop(_, _, _, _)
SearchLoop(r, hash, lo, hi) ==
    IF lo > hi THEN lo
    ELSE LET mid == (lo + hi) \div 2
         IN  IF r[mid + 1].hash = hash THEN mid
             ELSE IF r[mid + 1].hash < hash THEN SearchLoop(r, hash, mid + 1, hi)
             ELSE SearchLoop(r, hash, lo, mid - 1)

\* _binarySearch: a 0-based index into r, or -1.
BinarySearch(r, hash) ==
    IF Len(r) = 0 THEN -1
    ELSE IF hash <= r[1].hash THEN 0
    ELSE IF hash > r[Len(r)].hash THEN 0
    ELSE SearchLoop(r, hash, 0, Len(r) - 1)

Null == [kind |-> "null"]
NodeResult(n) == [kind |-> "node", value |-> n]

\* getNode on ring r.
GetNode(fn, r, key) ==
    IF Len(r) = 0 THEN Null
    ELSE LET idx == BinarySearch(r, HashToBigInt(fn, key))
         IN  IF idx = -1 THEN Null ELSE NodeResult(r[idx + 1].node)

Contains(s, x) == \E j \in 1 .. Len(s) : s[j] = x

\* The walk without its `seen` test.
RECURSIVE WalkLoopNoSeen(_, _, _, _, _)
WalkLoopNoSeen(r, idx, count, i, res) ==
    IF ~(Len(res) < count) THEN res
    ELSE LET res2 == Append(res, r[i + 1].node)
             i2   == (i + 1) % Len(r)
         IN  IF i2 = idx THEN res2 ELSE WalkLoopNoSeen(r, idx, count, i2, res2)

\* The walk that stops at the end of the array instead of wrapping to index 0.
RECURSIVE WalkLoopNoWrap(_, _, _, _, _)
WalkLoopNoWrap(r, idx, count, i, res) ==
    IF ~(Len(res) < count) THEN res
    ELSE LET node == r[i + 1].node
             res2 == IF \E j \in 1 .. Len(res) : res[j] = node THEN res
                     ELSE Append(res, node)
         IN  IF i + 1 = Len(r) THEN res2
             ELSE WalkLoopNoWrap(r, idx, count, i + 1, res2)

\* The while loop of getNodes from 0-based index i with the nodes collected so far.
RECURSIVE WalkLoop(_, _, _, _, _)
WalkLoop(r, idx, count, i, res) ==
    IF ~(Len(res) < count) THEN res
    ELSE LET node == r[i + 1].node
             res2 == IF Contains(res, node) THEN res ELSE Append(res, node)
             i2   == (i + 1) % Len(r)
         IN  IF i2 = idx THEN res2 ELSE WalkLoop(r, idx, count, i2, res2)

\* getNodes whose guard also rejects count = 1.
GetNodesOffByOne(fn, r, key, count) ==
    IF Len(r) = 0 \/ count <= 1 THEN << >>
    ELSE LET idx == BinarySearch(r, HashToBigInt(fn, key))
         IN  IF idx = -1 THEN << >> ELSE WalkLoop(r, idx, count, idx, << >>)

\* getNodes on ring r.
GetNodes(fn, r, key, count) ==
    IF Len(r) = 0 \/ count <= 0 THEN << >>
    ELSE LET idx == BinarySearch(r, HashToBigInt(fn, key))
         IN  IF idx = -1 THEN << >> ELSE WalkLoop(r, idx, count, idx, << >>)

\* getRingSnapshot: the hash of each entry rendered in decimal.
GetRingSnapshot(r) ==
    [i \in 1 .. Len(r) |-> [hash  |-> Decimal(r[i].hash),
                            vnode |-> r[i].vnode,
                            node  |-> r[i].node]]

\* addNode without its final sort.
AddNodeRingUnsorted(fn, reps, r, nodeId, weight) ==
    r \o NewEntries(fn, nodeId, ReplicasForNode(reps, weight))

\* The ring addNode leaves: every new entry pushed, then the whole array sorted.
AddNodeRing(fn, reps, r, nodeId, weight) ==
    SortRing(r \o NewEntries(fn, nodeId, ReplicasForNode(reps, weight)))

\* The registry addNode leaves.
AddNodeMap(reps, m, nodeId, weight) ==
    MapSet(m, nodeId, NewVnodeSet(nodeId, ReplicasForNode(reps, weight)))

\* removeNode that leaves the ring as it is.
RemoveNodeRingStale(r, nodeId) == r

\* removeNode that drops every entry at a coordinate the node occupies.
RemoveNodeRingByHash(r, nodeId) ==
    LET H == { r[i].hash : i \in { k \in 1 .. Len(r) : r[k].node = nodeId } }
    IN  SelectSeq(r, LAMBDA e : e.hash \notin H)

\* The ring removeNode leaves.
RemoveNodeRing(r, nodeId) == FilterOut(r, nodeId)

\* removeNode that leaves the registry as it is.
RemoveNodeMapStale(m, nodeId) == m

\* The registry removeNode leaves.
RemoveNodeMap(m, nodeId) == MapDelete(m, nodeId)

\* An existence test that never finds the node.
HasNever(m, nodeId) == FALSE

\* this.nodeMap.has(nodeId), the test addNode throws on.
Has(m, nodeId) == nodeId \in DOMAIN m

\* A lookup that finds a vnode set for every node id.
KnownAlways(m, nodeId) == TRUE

\* this.nodeMap.get(nodeId) is a Set: removeNode returns false when it is not.
Known(m, nodeId) == nodeId \in DOMAIN m

(* ------------------------------ actions ------------------------------- *)

Init ==
    /\ replicas = Replicas
    /\ hashFn \in HashFns
    /\ ring = << >>
    /\ nodeMap = EmptyMap
    /\ weights = EmptyMap
    /\ call = [op |-> "constructor"]
    /\ result = [kind |-> "void"]
    /\ prevRing = << >>
    /\ prevNodeMap = EmptyMap
    /\ prevRemoved = {}

Begin ==
    /\ prevRing' = ring
    /\ prevNodeMap' = nodeMap
    /\ prevRemoved' = IF call.op = "removeNode" /\ result.value THEN {call.nodeId}
                      ELSE {}
    /\ UNCHANGED << replicas, hashFn >>

\* addNode(nodeId, weight) on a node that is not registered.
AddNode(nodeId, weight) ==
    /\ ~Has(nodeMap, nodeId)
    /\ Begin
    /\ call' = [op |-> "addNode", nodeId |-> nodeId, weight |-> weight]
    /\ ring' = AddNodeRing(hashFn, replicas, ring, nodeId, weight)
    /\ nodeMap' = AddNodeMap(replicas, nodeMap, nodeId, weight)
    /\ weights' = MapSet(weights, nodeId, weight)
    /\ result' = [kind |-> "void"]

\* addNode(nodeId, weight) on a registered node: throws.
AddNodeExists(nodeId, weight) ==
    /\ Has(nodeMap, nodeId)
    /\ Begin
    /\ call' = [op |-> "addNode", nodeId |-> nodeId, weight |-> weight]
    /\ result' = [kind |-> "throws", message |-> "already exists"]
    /\ UNCHANGED << ring, nodeMap, weights >>

\* removeNode(nodeId) on a registered node.
RemoveNode(nodeId) ==
    /\ Known(nodeMap, nodeId)
    /\ Begin
    /\ call' = [op |-> "removeNode", nodeId |-> nodeId]
    /\ ring' = RemoveNodeRing(ring, nodeId)
    /\ nodeMap' = RemoveNodeMap(nodeMap, nodeId)
    /\ weights' = MapDelete(weights, nodeId)
    /\ result' = [kind |-> "bool", value |-> TRUE]

\* removeNode(nodeId) on an unknown node.
RemoveNodeUnknown(nodeId) ==
    /\ ~Known(nodeMap, nodeId)
    /\ Begin
    /\ call' = [op |-> "removeNode", nodeId |-> nodeId]
    /\ result' = [kind |-> "bool", value |-> FALSE]
    /\ UNCHANGED << ring, nodeMap, weights >>

QueryGetNode(key) ==
    /\ Begin
    /\ call' = [op |-> "getNode", key |-> key]
    /\ result' = GetNode(hashFn, ring, key)
    /\ UNCHANGED << ring, nodeMap, weights >>

\* A getNodes that consumes the entry it starts from.
QueryGetNodesShifting(key, count) ==
    /\ Begin
    /\ call' = [op |-> "getNodes", key |-> key, count |-> count]
    /\ result' = [kind |-> "nodes", value |-> GetNodes(hashFn, ring, key, count)]
    /\ ring' = IF ring = << >> THEN ring ELSE Tail(ring)
    /\ UNCHANGED << nodeMap, weights >>

QueryGetNodes(key, count) ==
    /\ Begin
    /\ call' = [op |-> "getNodes", key |-> key, count |-> count]
    /\ result' = [kind |-> "nodes", value |-> GetNodes(hashFn, ring, key, count)]
    /\ UNCHANGED << ring, nodeMap, weights >>

QueryGetRingSnapshot ==
    /\ Begin
    /\ call' = [op |-> "getRingSnapshot"]
    /\ result' = [kind |-> "snapshot", value |-> GetRingSnapshot(ring)]
    /\ UNCHANGED << ring, nodeMap, weights >>

Next ==
    \/ \E nodeId \in NodeIds, weight \in Weights : AddNode(nodeId, weight)
    \/ \E nodeId \in NodeIds, weight \in Weights : AddNodeExists(nodeId, weight)
    \/ \E nodeId \in NodeIds : RemoveNode(nodeId)
    \/ \E nodeId \in NodeIds : RemoveNodeUnknown(nodeId)
    \/ \E key \in Keys : QueryGetNode(key)
    \/ \E key \in Keys, count \in Counts : QueryGetNodes(key, count)
    \/ QueryGetRingSnapshot

Spec == Init /\ [][Next]_vars

\* The same operations called with node ids that contain '#'.
NextSharp ==
    \/ \E nodeId \in SharpNodeIds, weight \in Weights : AddNode(nodeId, weight)
    \/ \E nodeId \in SharpNodeIds, weight \in Weights : AddNodeExists(nodeId, weight)
    \/ \E nodeId \in SharpNodeIds : RemoveNode(nodeId)
    \/ \E nodeId \in SharpNodeIds : RemoveNodeUnknown(nodeId)
    \/ \E key \in Keys : QueryGetNode(key)
    \/ \E key \in Keys, count \in Counts : QueryGetNodes(key, count)
    \/ QueryGetRingSnapshot

SpecSharp == Init /\ [][NextSharp]_vars

(* ------------------------------ properties ---------------------------- *)

Registered == DOMAIN nodeMap

Coordinates == 0 .. HashSpace - 1

RingNodes(r) == { r[i].node : i \in 1 .. Len(r) }

Removed == call.op = "removeNode" /\ result.value = TRUE

Added == call.op = "addNode" /\ result.kind = "void"

\* C1 (total coverage): whenever at least one node is registered, getNode
\* returns for every key a node id, never null, and that id is currently in
\* the registry; so does the getNode call that was just made.
C1_TotalCoverage ==
    Registered # {} =>
        /\ \A key \in Keys :
              /\ GetNode(hashFn, ring, key).kind = "node"
              /\ GetNode(hashFn, ring, key).value \in Registered
        /\ call.op = "getNode" =>
              result.kind = "node" /\ result.value \in Registered

\* A node was just removed from a ring that keeps other nodes, and a key it
\* owned now resolves to a node that is still registered.
C1_Witness ==
    /\ Removed
    /\ Registered # {}
    /\ \E key \in Keys :
          /\ GetNode(hashFn, prevRing, key) = NodeResult(call.nodeId)
          /\ GetNode(hashFn, ring, key).kind = "node"

\* 0-based index of the first entry of r whose coordinate is >= h, and 0 when
\* h is greater than every coordinate.
FirstAtOrAfter(r, h) ==
    LET S == { i \in 1 .. Len(r) : r[i].hash >= h }
    IN  IF S = {} THEN 0 ELSE (CHOOSE i \in S : \A j \in S : i <= j) - 1

\* C2 (owner location): on every non-empty ring and for every coordinate h,
\* _binarySearch(h) is the index of the first entry with coordinate >= h (0
\* when h exceeds every coordinate), and getNode returns the node of exactly
\* that entry.
C2_OwnerLocation ==
    ring # << >> =>
        /\ \A h \in Coordinates : BinarySearch(ring, h) = FirstAtOrAfter(ring, h)
        /\ \A key \in Keys :
              GetNode(hashFn, ring, key) =
                NodeResult(ring[FirstAtOrAfter(ring, HashToBigInt(hashFn, key)) + 1].node)

\* C3 (minimal disruption on removal): after removeNode(r) returned true,
\* every key whose owner before the call was not r keeps its owner, and a key
\* r owned resolves to a registered node, or to null when r was the last node.
C3_RemovalDisruption ==
    Removed =>
        \A key \in Keys :
            LET before == GetNode(hashFn, prevRing, key)
                after  == GetNode(hashFn, ring, key)
            IN  IF before # NodeResult(call.nodeId) THEN after = before
                ELSE IF Registered = {} THEN after = Null
                ELSE after.kind = "node" /\ after.value \in Registered

\* C4 (minimal disruption on addition): after addNode(x, w) on a non-empty
\* ring, every key is owned by the node that owned it before or by x.
C4_AdditionDisruption ==
    (Added /\ prevRing # << >>) =>
        \A key \in Keys :
            \/ GetNode(hashFn, ring, key) = GetNode(hashFn, prevRing, key)
            \/ GetNode(hashFn, ring, key) = NodeResult(call.nodeId)

\* The number a decimal string denotes.
RECURSIVE DecimalValue(_)
DecimalValue(str) ==
    IF str = << >> THEN 0
    ELSE 10 * DecimalValue(SubSeq(str, 1, Len(str) - 1))
           + (CharCode(str[Len(str)]) - CharCode("0"))

SnapshotSorted(snap) ==
    \A i, j \in 1 .. Len(snap) :
        i < j => DecimalValue(snap[i].hash) <= DecimalValue(snap[j].hash)

\* C5 (sorted invariant): after any sequence of addNode and removeNode calls,
\* successful or failing, the entries getRingSnapshot returns are in
\* non-decreasing order of coordinate.
C5_SortedInvariant ==
    /\ SnapshotSorted(GetRingSnapshot(ring))
    /\ call.op = "getRingSnapshot" => SnapshotSorted(result.value)

\* A snapshot was taken of a ring of several nodes that holds both equal and
\* increasing neighbours and whose entries are not in the order of insertion.
C5_Witness ==
    /\ call.op = "getRingSnapshot"
    /\ Cardinality(Registered) >= 2
    /\ \E i \in 1 .. Len(ring) - 1 : ring[i].hash = ring[i + 1].hash
    /\ \E i \in 1 .. Len(ring) - 1 :
          /\ ring[i].hash < ring[i + 1].hash
          /\ ring[i].node # ring[i + 1].node
    /\ \E n \in Registered : \E i, j \in 1 .. Len(ring) :
          i + 1 < j /\ ring[i].node = n /\ ring[j].node = n

\* C6 (ring/registry consistency): the set of nodes that appear in ring
\* entries is the key set of the registry, so every registered node owns at
\* least one entry, whatever weight it was added with.
C6_RingRegistryConsistent ==
    /\ RingNodes(ring) = Registered
    /\ \A n \in Registered : \E i \in 1 .. Len(ring) : ring[i].node = n

\* A node was just added with a zero or negative weight, beside a node added
\* with a weight that rounds to zero replicas.
C6_Witness ==
    /\ Added
    /\ call.weight[1] <= 0
    /\ \E n \in Registered \ {call.nodeId} :
          /\ weights[n][1] > 0
          /\ 2 * replicas * weights[n][1] < weights[n][2]

\* The integer nearest to num / den (den > 0), the upper one of two equally near.
RoundNearest(num, den) ==
    CHOOSE n \in -(num * num + 1) .. (num * num + 1) :
        /\ 2 * n * den - den <= 2 * num
        /\ 2 * num < 2 * n * den + den

\* max(1, round(replicas * w))
ExpectedCount(reps, w) == Max(1, RoundNearest(reps * w[1], w[2]))

RECURSIVE SumExpected(_, _, _)
SumExpected(reps, w, nodes) ==
    IF nodes = {} THEN 0
    ELSE LET n == CHOOSE x \in nodes : TRUE
         IN  ExpectedCount(reps, w[n]) + SumExpected(reps, w, nodes \ {n})

\* C7 (replica count): a successful addNode(nodeId, w) adds exactly
\* max(1, round(replicas * w)) entries, all with node = nodeId and vnode ids
\* nodeId#0 .. nodeId#(count-1), so the snapshot grows by that count; in every
\* state the snapshot length is the sum of the replica counts of the
\* registered nodes; replicas = 100 gives 100 entries for w = 1 and 1 for
\* w = 0.01.
C7_ReplicaCount ==
    /\ Added =>
          LET n    == ExpectedCount(replicas, call.weight)
              mine == { i \in 1 .. Len(ring) : ring[i].node = call.nodeId }
          IN  /\ Len(GetRingSnapshot(ring)) = Len(GetRingSnapshot(prevRing)) + n
              /\ Cardinality(mine) = n
              /\ \A i \in 1 .. Len(prevRing) : prevRing[i].node # call.nodeId
              /\ { ring[i].vnode : i \in mine }
                    = { VnodeId(call.nodeId, j) : j \in 0 .. n - 1 }
              /\ Cardinality({ ring[i].vnode : i \in mine }) = n
    /\ Len(GetRingSnapshot(ring)) = SumExpected(replicas, weights, Registered)
    /\ ReplicasForNode(100, <<1, 1>>) = 100
    /\ ReplicasForNode(100, <<1, 100>>) = 1

\* A node was just added to a non-empty ring with replicas * w exactly
\* halfway between two integers, and it received more than one entry.
C7_Witness ==
    /\ Added
    /\ prevRing # << >>
    /\ (2 * replicas * call.weight[1]) % (2 * call.weight[2]) = call.weight[2]
    /\ Cardinality({ i \in 1 .. Len(ring) : ring[i].node = call.nodeId }) >= 2

Min(a, b) == IF a <= b THEN a ELSE b

NoDuplicates(s) == \A i, j \in 1 .. Len(s) : i # j => s[i] # s[j]

Elements(s) == { s[i] : i \in 1 .. Len(s) }

\* C8 as stated (distinctness of getNodes): for any key and any count the
\* result has no duplicate node, holds only registered nodes and is no longer
\* than min(count, number of registered nodes).
C8_Original ==
    call.op = "getNodes" =>
        /\ NoDuplicates(result.value)
        /\ Elements(result.value) \subseteq Registered
        /\ Len(result.value) <= Min(call.count, Cardinality(Registered))

\* C8 (distinctness of getNodes, amended): for any key and any integer count
\* the result has no duplicate node, holds only registered nodes and is no
\* longer than min(max(count, 0), number of registered nodes).
C8_Distinctness ==
    /\ \A key \in Keys, count \in Counts :
          LET res == GetNodes(hashFn, ring, key, count)
          IN  /\ NoDuplicates(res)
              /\ Elements(res) \subseteq Registered
              /\ Len(res) <= Min(Max(count, 0), Cardinality(Registered))
    /\ call.op = "getNodes" =>
          /\ NoDuplicates(result.value)
          /\ Elements(result.value) \subseteq Registered
          /\ Len(result.value) <= Min(Max(call.count, 0), Cardinality(Registered))

\* getNodes was asked for more nodes than are registered, on a ring where the
\* walk from the key's owner meets a node it has already collected before it
\* meets the last new one.
C8_Witness ==
    /\ call.op = "getNodes"
    /\ call.count > Cardinality(Registered)
    /\ Len(result.value) >= 2
    /\ LET idx == BinarySearch(ring, HashToBigInt(hashFn, call.key))
           at(k) == ring[((idx + k) % Len(ring)) + 1].node
       IN  \E k \in 1 .. Len(ring) - 2 :
              /\ \E m \in 0 .. k - 1 : at(m) = at(k)
              /\ \E m \in k + 1 .. Len(ring) - 1 :
                    \A l \in 0 .. m - 1 : at(l) # at(m)

\* C9 (getNodes completeness): on a non-empty ring getNodes(key, count)
\* returns exactly min(count, N) nodes for every count >= 1, N the number of
\* registered nodes, and for count >= N every registered node exactly once.
C9_Completeness ==
    ring # << >> =>
        /\ \A key \in Keys, count \in 1 .. MaxCount :
              LET res == GetNodes(hashFn, ring, key, count)
                  N   == Cardinality(Registered)
              IN  /\ Len(res) = Min(count, N)
                  /\ count >= N => (Elements(res) = Registered /\ NoDuplicates(res))
        /\ (call.op = "getNodes" /\ call.count >= 1) =>
              Len(result.value) = Min(call.count, Cardinality(Registered))

\* getNodes returned every one of three registered nodes from a start index in
\* the middle of the ring, the last of them found only after the walk wrapped
\* to index 0.
C9_Witness ==
    /\ call.op = "getNodes"
    /\ Cardinality(Registered) = 3
    /\ call.count >= 3
    /\ Elements(result.value) = Registered
    /\ LET idx == BinarySearch(ring, HashToBigInt(hashFn, call.key))
       IN  /\ idx > 0
           /\ \A i \in idx + 1 .. Len(ring) : ring[i].node # result.value[3]

\* C10 (removal completeness): after removeNode(id) returned true no ring or
\* snapshot entry has node = id and id is not in the registry; an addNode(id, w)
\* that follows immediately does not throw, whatever w is, and registers id
\* with its entries.
C10_RemovalComplete ==
    /\ Removed =>
          /\ \A i \in 1 .. Len(ring) : ring[i].node # call.nodeId
          /\ \A i \in 1 .. Len(ring) : GetRingSnapshot(ring)[i].node # call.nodeId
          /\ call.nodeId \notin Registered
    /\ (call.op = "addNode" /\ call.nodeId \in prevRemoved) =>
          /\ result.kind = "void"
          /\ call.nodeId \in Registered
          /\ \E i \in 1 .. Len(ring) : ring[i].node = call.nodeId

\* A node that owned several entries was removed from a ring that keeps other
\* nodes and was added again by the next call, with a weight that is not
\* positive.
C10_Witness ==
    /\ call.op = "addNode"
    /\ call.nodeId \in prevRemoved
    /\ call.weight[1] <= 0
    /\ prevRing # << >>
    /\ Cardinality(nodeMap[call.nodeId]) = 1

\* C11 (duplicate add is rejected atomically): addNode(nodeId, w) on a node
\* that is already registered throws 'already exists' for every weight w and
\* leaves the ring entries, the snapshot and the registry exactly as they were.
C11_DuplicateAddRejected ==
    (call.op = "addNode" /\ call.nodeId \in DOMAIN prevNodeMap) =>
        /\ result.kind = "throws"
        /\ result.message = "already exists"
        /\ ring = prevRing
        /\ GetRingSnapshot(ring) = GetRingSnapshot(prevRing)
        /\ nodeMap = prevNodeMap

\* addNode was just called on a registered node of a ring that holds several
\* nodes, with a weight that would give it another number of replicas.
C11_Witness ==
    /\ call.op = "addNode"
    /\ result.kind = "throws"
    /\ Cardinality(Registered) >= 2
    /\ ReplicasForNode(replicas, call.weight) # Cardinality(nodeMap[call.nodeId])

\* C12 (unknown removal is a no-op): removeNode(nodeId) returns a boolean,
\* false exactly when nodeId was not registered and true exactly when it was;
\* when it returns false the ring entries and the registry are unchanged.
C12_UnknownRemovalNoOp ==
    call.op = "removeNode" =>
        /\ result.kind = "bool"
        /\ result.value = FALSE <=> call.nodeId \notin DOMAIN prevNodeMap
        /\ result.value = TRUE <=> call.nodeId \in DOMAIN prevNodeMap
        /\ result.value = FALSE => (ring = prevRing /\ nodeMap = prevNodeMap)

\* removeNode just returned false on a ring that holds entries: the node it
\* names had been removed by the call before.
C12_Witness ==
    /\ call.op = "removeNode"
    /\ result.value = FALSE
    /\ ring # << >>
    /\ call.nodeId \in prevRemoved

\* C13 (getNode absence): in every reachable state and for every key,
\* getNode(key) returns null if and only if the registry holds no node, and
\* otherwise returns a node; it never throws.
C13_GetNodeAbsence ==
    /\ \A key \in Keys :
          /\ GetNode(hashFn, ring, key) = Null <=> Registered = {}
          /\ GetNode(hashFn, ring, key) # Null =>
                GetNode(hashFn, ring, key).kind = "node"
    /\ call.op = "getNode" =>
          /\ result.kind \in { "null", "node" }
          /\ result = Null <=> Registered = {}

\* getNode just returned null on a ring emptied by removing its last node.
C13_Witness ==
    /\ call.op = "getNode"
    /\ result = Null
    /\ prevRemoved # {}

\* C14 (getNodes empty result): getNodes(key, count) is the empty sequence
\* whenever the ring holds no entries or count <= 0, and is non-empty on a
\* non-empty ring with count >= 1, for every key.
C14_GetNodesEmpty ==
    /\ \A key \in Keys, count \in Counts :
          /\ (Len(ring) = 0 \/ count <= 0) =>
                GetNodes(hashFn, ring, key, count) = << >>
          /\ (Len(ring) > 0 /\ count >= 1) =>
                GetNodes(hashFn, ring, key, count) # << >>
    /\ call.op = "getNodes" =>
          (result.value = << >> <=> (Len(ring) = 0 \/ call.count <= 0))

\* getNodes just returned the empty sequence for a count <= 0 on a ring that
\* holds entries of two nodes.
C14_Witness ==
    /\ call.op = "getNodes"
    /\ call.count <= 0
    /\ Cardinality(RingNodes(ring)) >= 2
    /\ result.value = << >>

\* C15 (queries are pure): getNode, getNodes and getRingSnapshot leave the
\* ring entries and the registry unchanged, so the same query repeated on the
\* state they leave returns the result just returned.
C15_QueriesPure ==
    /\ call.op \in { "getNode", "getNodes", "getRingSnapshot" } =>
          (ring = prevRing /\ nodeMap = prevNodeMap)
    /\ call.op = "getNode" => result = GetNode(hashFn, ring, call.key)
    /\ call.op = "getNodes" =>
          result.value = GetNodes(hashFn, ring, call.key, call.count)
    /\ call.op = "getRingSnapshot" => result.value = GetRingSnapshot(ring)

\* getNodes just returned two nodes from a ring of at least three entries.
C15_Witness ==
    /\ call.op = "getNodes"
    /\ Len(result.value) >= 2
    /\ Len(ring) >= 3

\* C16 (virtual-id uniqueness): in every reachable state no two ring entries
\* have the same vnode id, also when node ids themselves contain '#', and each
\* registered node's registry set is exactly the set of vnode ids of the ring
\* entries it owns.
C16_VnodeIdsUnique ==
    /\ \A i, j \in 1 .. Len(ring) : i # j => ring[i].vnode # ring[j].vnode
    /\ RingNodes(ring) \subseteq Registered
    /\ \A n \in Registered :
          nodeMap[n] = { ring[i].vnode : i \in { k \in 1 .. Len(ring) : ring[k].node = n } }

\* Node "a" and node "a#1" are both registered with two replicas each, so the
\* id of the second is spelled like a vnode id of the first.
C16_Witness ==
    /\ { << "a" >>, << "a", "#", "1" >> } \subseteq Registered
    /\ Cardinality(nodeMap[<< "a" >>]) = 2
    /\ Cardinality(nodeMap[<< "a", "#", "1" >>]) = 2
    /\ \E i \in 1 .. Len(ring) : ring[i].vnode = << "a", "#", "1" >>

\* The nodes of r's entries in clockwise order from 0-based index idx, one full
\* revolution, wrapping from the last entry to the first.
ClockwiseNodes(r, idx) ==
    [k \in 1 .. Len(r) |-> r[((idx + k - 1) % Len(r)) + 1].node]

\* s with every element kept at its first occurrence only.
RECURSIVE FirstOccurrences(_)
FirstOccurrences(s) ==
    IF s = << >> THEN << >>
    ELSE LET front == FirstOccurrences(SubSeq(s, 1, Len(s) - 1))
         IN  IF s[Len(s)] \in Elements(front) THEN front
             ELSE Append(front, s[Len(s)])

IsPrefix(s, t) == Len(s) <= Len(t) /\ s = SubSeq(t, 1, Len(s))

\* C17 (getNodes order): on a non-empty ring and for count >= 1,
\* getNodes(key, count) lists the first count distinct nodes in clockwise order
\* of first occurrence from the key's owner index, the index of the first
\* entry with coordinate >= the key's (0 past the last); its first element is
\* getNode(key), and getNodes(key, c) is a prefix of getNodes(key, c + 1).
C17_GetNodesOrder ==
    ring # << >> =>
        \A key \in Keys, count \in 1 .. MaxCount :
            LET owner == FirstAtOrAfter(ring, HashToBigInt(hashFn, key))
                order == FirstOccurrences(ClockwiseNodes(ring, owner))
                nodes == GetNodes(hashFn, ring, key, count)
            IN  /\ nodes = SubSeq(order, 1, Min(count, Len(order)))
                /\ NodeResult(nodes[1]) = GetNode(hashFn, ring, key)
                /\ IsPrefix(nodes, GetNodes(hashFn, ring, key, count + 1))

\* C18 (removeNode frame): a successful removeNode(id) deletes only entries
\* with node = id: every entry of another node is still in the ring with the
\* same coordinate, vnode id and node and in the same relative order, and the
\* registry set of every other node is unchanged.
C18_RemoveFrame ==
    Removed =>
        LET keep == { i \in 1 .. Len(prevRing) : prevRing[i].node # call.nodeId }
        IN  /\ Len(ring) = Cardinality(keep)
            /\ \A i \in keep : ring[Cardinality({ j \in keep : j <= i })] = prevRing[i]
            /\ DOMAIN nodeMap = DOMAIN prevNodeMap \ { call.nodeId }
            /\ \A n \in DOMAIN nodeMap : nodeMap[n] = prevNodeMap[n]

\* The removed node shared a coordinate with an entry of another node, and
\* entries of two other nodes remain.
C18_Witness ==
    /\ Removed
    /\ Cardinality(RingNodes(ring)) >= 2
    /\ \E i, j \in 1 .. Len(prevRing) :
          /\ prevRing[i].node = call.nodeId
          /\ prevRing[j].node # call.nodeId
          /\ prevRing[i].hash = prevRing[j].hash

\* C19 (add/remove round trip): from every reachable state, for every node x
\* that is not registered and every weight w, addNode(x, w) followed at once by
\* removeNode(x) leaves the ring entry sequence, its snapshot and the registry
\* exactly as they were, entries with equal coordinates in their old order.
C19_AddRemoveRoundTrip ==
    \A x \in NodeIds \ Registered, w \in Weights :
        LET ringAdded == AddNodeRing(hashFn, replicas, ring, x, w)
            mapAdded  == AddNodeMap(replicas, nodeMap, x, w)
        IN  /\ Known(mapAdded, x)
            /\ RemoveNodeRing(ringAdded, x) = ring
            /\ GetRingSnapshot(RemoveNodeRing(ringAdded, x)) = GetRingSnapshot(ring)
            /\ RemoveNodeMap(mapAdded, x) = nodeMap

\* removeNode(x) just undid an addNode(x, w): the ring before the removal is
\* the one addNode(x, w) builds from the present ring, in which two entries of
\* different nodes share a coordinate that x occupied too.
C19_Witness ==
    /\ Removed
    /\ \E w \in Weights :
          prevRing = AddNodeRing(hashFn, replicas, ring, call.nodeId, w)
    /\ \E i, j \in 1 .. Len(ring), k \in 1 .. Len(prevRing) :
          /\ ring[i].node # ring[j].node
          /\ ring[i].hash = ring[j].hash
          /\ prevRing[k].node = call.nodeId
          /\ prevRing[k].hash = ring[i].hash

\* Every order in which the nodes of S can be added.
Orders(S) ==
    { o \in [1 .. Cardinality(S) -> S] : \A i, j \in DOMAIN o : i # j => o[i] # o[j] }

\* The ring a fresh instance holds after addNode(order[i], w[order[i]]) for
\* i = 1, 2, ... in turn.
RECURSIVE BuildRing(_, _, _, _)
BuildRing(fn, reps, w, order) ==
    IF Len(order) = 0 THEN << >>
    ELSE AddNodeRing(fn, reps,
                     BuildRing(fn, reps, w, SubSeq(order, 1, Len(order) - 1)),
                     order[Len(order)], w[order[Len(order)]])

\* No two entries of different nodes share a coordinate.
NoCrossNodeTies(r) ==
    \A i, j \in 1 .. Len(r) : r[i].hash = r[j].hash => r[i].node = r[j].node

\* C20 as claimed (history independence): a ring that holds the same
\* (node, weight) pairs as this one, built by adding them in any order, gives
\* every key the same getNode result, also when virtual nodes of different
\* nodes share a coordinate.
C20_Original ==
    \A order \in Orders(Registered) :
        \A key \in Keys :
            GetNode(hashFn, ring, key) =
              GetNode(hashFn, BuildRing(hashFn, replicas, weights, order), key)

\* C20 (history independence, amended): when no two virtual nodes of
\* different nodes share a coordinate, a ring that holds the same (node,
\* weight) pairs as this one, built by adding them in any order, holds the
\* same entries in the same order and gives every key the same getNode result.
C20_HistoryIndependent ==
    NoCrossNodeTies(ring) =>
        \A order \in Orders(Registered) :
            LET other == BuildRing(hashFn, replicas, weights, order)
            IN  /\ other = ring
                /\ \A key \in Keys :
                      GetNode(hashFn, ring, key) = GetNode(hashFn, other, key)

\* A ring of three nodes without cross-node ties that was reached through a
\* removal, one node holding two entries at one coordinate or several entries.
C20_Witness ==
    /\ Added
    /\ prevRemoved # {}
    /\ Cardinality(Registered) = 3
    /\ Len(ring) >= 4
    /\ NoCrossNodeTies(ring)

====
